---- MODULE Spec2Model ----
(***************************************************************************)
(* Platify website: the content delivery pipeline of src/main.go.          *)
(*                                                                         *)
(* src/main.go holds two builds of the same service:                       *)
(*   "gin"  lines   1-325  (gin router, c.HTML rendering)                  *)
(*   "mux"  lines 327-591  (net/http ServeMux, ExecuteTemplate on w)       *)
(* The variable `variant` says which build is running.                     *)
(*                                                                         *)
(* Strings that the code takes apart (identifiers, URLs, quantities) are   *)
(* sequences of one-character strings; the scheme and authority of a URL   *)
(* are a single leading element.                                           *)
(***************************************************************************)
EXTENDS Integers, Sequences, FiniteSets, TLC

\* ------------------------------------------------------------------ bounds

\* Requests handled concurrently (one goroutine per inbound request).
NumReqs == 2
\* Longest caller-supplied path tail in the URL-composition specification.
MaxIdLen == 3
\* Longest quantity / unit string given to formatQty.
MaxStrLen == 2
\* Uploads in flight at once.
NumUploads == 2
\* Last reading of the nanosecond clock.
MaxClock == 1
\* Largest random suffix drawn (the suffix has 16^8 values; a few suffice
\* for two uploads to draw equal or different ones).
MaxRand == 1

Reqs == 1..NumReqs

\* Characters of caller-supplied identifiers: a letter (also a hex digit),
\* the path separator, the dot of dot-segments, and the URL delimiters.
Alphabet == {"a", "/", ".", "?", "#", "%"}
HexDigits == {"a"}

\* ------------------------------------------------------- string helpers

SeqsUpTo(S, n) == UNION {[1..k -> S] : k \in 0..n}

Range(s) == {s[i] : i \in 1..Len(s)}

\* Index of the first / last occurrence of c in s, 0 when there is none.
IndexOf(s, c) ==
  IF c \in Range(s)
  THEN CHOOSE i \in 1..Len(s) : s[i] = c /\ \A j \in 1..(i - 1) : s[j] # c
  ELSE 0

LastIndexOf(s, c) ==
  IF c \in Range(s)
  THEN CHOOSE i \in 1..Len(s) : s[i] = c /\ \A j \in (i + 1)..Len(s) : s[j] # c
  ELSE 0

HasPrefix(s, p) == Len(p) <= Len(s) /\ SubSeq(s, 1, Len(p)) = p

Drop(s, n) == SubSeq(s, n + 1, Len(s))

\* strings.TrimRight(v, "/")
RECURSIVE TrimRight(_, _)
TrimRight(s, c) ==
  IF Len(s) > 0 /\ s[Len(s)] = c THEN TrimRight(SubSeq(s, 1, Len(s) - 1), c) ELSE s

\* The "/"-separated elements of s ("a/b" -> <<"a","b">>, "a/" -> <<"a","">>).
RECURSIVE Segments(_)
Segments(s) ==
  LET i == IndexOf(s, "/") IN
  IF i = 0 THEN <<s>> ELSE <<SubSeq(s, 1, i - 1)>> \o Segments(Drop(s, i))

\* ------------------------------------------------------------------ config

\* API_BASE_URL: unset (empty), or set by the operator.
EnvValues == { <<>>, <<"https://api.test", "/">> }

VARIABLES
  variant,    \* "gin" | "mux": which build of main.go runs
  apiBaseUrl, \* the API_BASE_URL environment variable
  templates,  \* the compiled template set: template name -> behaviour when executed
  reqs,       \* per inbound request: the handler's position and its response
  log,        \* per inbound request: what its handler wrote with log.Printf
  qty, unit, out, \* formatQty: the arguments and the result of one call
  uploads,    \* per upload: the ingestor's position, timestamp, suffix, name
  clock,      \* the nanosecond clock read by the image ingestor
  files       \* the upload directory: filename -> the upload stored under it

vars == <<variant, apiBaseUrl, templates, reqs, log, qty, unit, out,
          uploads, clock, files>>

\* apiBase() of the gin build: only a configured value is trimmed.
apiBaseGin ==
  IF apiBaseUrl # <<>> THEN TrimRight(apiBaseUrl, "/")
  ELSE <<"https://platify.aukespot.com", "/">>

\* apiBase() of the mux build.
apiBaseMux ==
  IF apiBaseUrl # <<>> THEN TrimRight(apiBaseUrl, "/")
  ELSE <<"https://api.platify.eu">>

apiBase == IF variant = "gin" THEN apiBaseGin ELSE apiBaseMux

\* ------------------------------------------------------------- net/url

\* Every "%" starts a %XX escape (url.unescape's check).
ValidEscapes(s) ==
  \A i \in 1..Len(s) :
    s[i] = "%" => /\ i + 2 <= Len(s)
                  /\ s[i + 1] \in HexDigits
                  /\ s[i + 2] \in HexDigits

\* url.Parse as http.NewRequestWithContext applies it to the composed string:
\* the fragment is cut at the first "#", the query at the first "?", and the
\* path and the fragment must unescape.  u[1] is the scheme and authority.
parseURL(u) ==
  LET rest   == Tail(u)
      h      == IndexOf(rest, "#")
      noFrag == IF h = 0 THEN rest ELSE SubSeq(rest, 1, h - 1)
      frag   == IF h = 0 THEN <<>> ELSE Drop(rest, h)
      q      == IndexOf(noFrag, "?")
      rpath  == IF q = 0 THEN noFrag ELSE SubSeq(noFrag, 1, q - 1)
      rquery == IF q = 0 THEN <<>> ELSE Drop(noFrag, q)
  IN [ok       |-> ValidEscapes(rpath) /\ ValidEscapes(frag),
      path     |-> rpath,
      hasQuery |-> q # 0,
      query    |-> rquery,
      fragment |-> frag]

\* url.PathEscape: what escaping the identifier would give.
RECURSIVE PathEscape(_)
PathEscape(s) ==
  IF s = <<>> THEN <<>>
  ELSE (CASE Head(s) = "/" -> <<"%", "2", "F">>
          [] Head(s) = "?" -> <<"%", "3", "F">>
          [] Head(s) = "#" -> <<"%", "2", "3">>
          [] Head(s) = "%" -> <<"%", "2", "5">>
          [] OTHER         -> <<Head(s)>>) \o PathEscape(Tail(s))

\* path.Base
Base(p) ==
  IF p = <<>> THEN <<".">>
  ELSE LET t == TrimRight(p, "/")
           i == LastIndexOf(t, "/")
           b == IF i = 0 THEN t ELSE Drop(t, i)
       IN IF b = <<>> THEN <<"/">> ELSE b

\* ServeMux serves a handler only a clean path (any other is redirected to
\* its cleaned form): below "/recipes/" no element is empty, "." or "..",
\* except that the path may end in "/".
IsCleanTail(t) ==
  \/ t = <<>>
  \/ LET segs == Segments(t) IN
     /\ \A i \in 1..Len(segs) : segs[i] \notin { <<".">>, <<".", ".">> }
     /\ \A i \in 1..(Len(segs) - 1) : segs[i] # <<>>
     /\ (segs[Len(segs)] = <<>> => Len(segs) >= 2)

\* gin matches ":id" against exactly one non-empty element of the decoded path.
IsGinParam(id) == id # <<>> /\ "/" \notin Range(id)

\* ------------------------------------------------------ upstream responses

\* Bodies an upstream 200 may carry: a well-formed document of the expected
\* kind, the JSON object {}, a document cut short, and a non-JSON page.
Bodies == {"record", "emptyObject", "truncated", "html"}

NoResp == [kind |-> "none", status |-> 0, body |-> ""]

Responses ==
  { [kind |-> k, status |-> 0, body |-> ""] : k \in {"transport", "timeout"} }
  \cup { [kind |-> "http", status |-> 200, body |-> b] : b \in Bodies }
  \cup { [kind |-> "http", status |-> s, body |-> "emptyObject"] : s \in {404, 500} }

\* ------------------------------------------------------------- values

\* A *Recipe, *Product or []Product as a handler holds it.
NilVal == [nil |-> TRUE, id |-> <<>>, name |-> ""]
ZeroVal == [nil |-> FALSE, id |-> <<>>, name |-> ""]
FullVal(id) == [nil |-> FALSE, id |-> id, name |-> "name"]

NoErr == ""

\* json.NewDecoder(body).Decode(&v) with v a struct (RecipeResponse, Product):
\* a JSON object without the expected keys decodes without error and leaves
\* v zero; a truncated or non-JSON body is an error.
decodeStruct(id, body) ==
  CASE body = "record"      -> [val |-> FullVal(id), err |-> NoErr]
    [] body = "emptyObject" -> [val |-> ZeroVal, err |-> NoErr]
    [] OTHER                -> [val |-> NilVal, err |-> "decode"]

\* Decode(&products) with products a []Product: a JSON object is a type error.
decodeList(body) ==
  CASE body = "record" -> [val |-> FullVal(<<>>), err |-> NoErr]
    [] OTHER           -> [val |-> NilVal, err |-> "decode"]

\* ------------------------------------------------------------ templates

TemplateNamesGin == {"home", "recipe", "product", "error"}
TemplateNamesMux == {"home.html", "recipe.html", "products.html", "error.html"}

\* What executing a parsed template does: it writes the whole page ("ok"),
\* fails before it has written anything ("failEarly"), or fails after part of
\* the page has gone to the writer ("failLate": a field the data lacks, a
\* write error on the connection).
Modes == {"ok", "failEarly", "failLate"}

\* loadTemplates: the template sets a successful start can leave behind.
\* A handler executes one content template or the error template, so one
\* misbehaving template per set covers every behaviour of a request.
TemplateSets(names) ==
  { t \in [names -> Modes] : Cardinality({n \in names : t[n] # "ok"}) <= 1 }

\* ------------------------------------------------------- response writer

NewWriter ==
  [wroteHeader |-> FALSE, status |-> 0, headerCalls |-> 0,
   body |-> <<>>, location |-> ""]

\* One piece of body written by one producer.
Chunk(tmpl, title, message, val, part) ==
  [tmpl |-> tmpl, title |-> title, message |-> message, val |-> val, part |-> part]

\* http.ResponseWriter.WriteHeader: the first call puts the status line on
\* the wire; a later call is dropped ("superfluous WriteHeader call").
WriteHeader(w, status) ==
  IF w.wroteHeader
  THEN [w EXCEPT !.headerCalls = @ + 1]
  ELSE [w EXCEPT !.wroteHeader = TRUE, !.status = status, !.headerCalls = @ + 1]

\* http.ResponseWriter.Write: an unwritten header goes out as 200 first.
Write(w, chunk) ==
  LET w1 == IF w.wroteHeader THEN w ELSE WriteHeader(w, 200)
  IN [w1 EXCEPT !.body = Append(@, chunk)]

\* net/http after the handler returns: a response never started is a 200.
finishRequest(w) == IF w.wroteHeader THEN w ELSE WriteHeader(w, 200)

\* templates.ExecuteTemplate(w, name, data)
ExecuteTemplate(w, name, title, message, val) ==
  CASE templates[name] = "ok" ->
         [w |-> Write(w, Chunk(name, title, message, val, "full")), failed |-> FALSE]
    [] templates[name] = "failLate" ->
         [w |-> Write(w, Chunk(name, title, message, val, "partial")), failed |-> TRUE]
    [] OTHER -> [w |-> w, failed |-> TRUE]

\* http.Error(w, message, code)
httpError(w, message, code) ==
  Write(WriteHeader(w, code), Chunk("text/plain", "", message, NilVal, "full"))

\* http.Redirect(w, r, "/", code) for a GET request
httpRedirect(w, code) ==
  Write(WriteHeader([w EXCEPT !.location = "/"], code),
        Chunk("redirect", "", "", NilVal, "full"))

\* gin's c.HTML(code, name, obj): the status is set, the template executed
\* on the writer, and the header goes out with that status whether or not
\* the template wrote anything (a render error is recorded with c.Error and
\* the context aborted; gin's own access log is not log.Printf's).
ginHTML(w, code, name, title, message, val) ==
  LET e == ExecuteTemplate([w EXCEPT !.status = code, !.wroteHeader = TRUE,
                                     !.headerCalls = @ + 1],
                           name, title, message, val)
  IN e.w

LogEntry(fn, id, cause, status) ==
  [fn |-> fn, id |-> id, cause |-> cause, status |-> status]

\* renderError of the gin build
renderErrorGin(w, status, title, message) ==
  [w |-> ginHTML(w, status, "error", title, message, NilVal), log |-> <<>>]

\* A renderError whose page counts the lines logged so far.
renderErrorMuxCounting(w, status, title, message) ==
  LET n  == Cardinality({r \in Reqs : log[r] # <<>>})
      w1 == WriteHeader(w, status)
      e  == ExecuteTemplate(w1, "error.html", IF n = 0 THEN title ELSE "again", message, NilVal)
  IN IF e.failed
     THEN [w   |-> httpError(e.w, message, status),
           log |-> <<LogEntry("error template", <<>>, "template", 0)>>]
     ELSE [w |-> e.w, log |-> <<>>]

\* renderError of the mux build
renderErrorMux(w, status, title, message) ==
  LET w1 == WriteHeader(w, status)
      e  == ExecuteTemplate(w1, "error.html", title, message, NilVal)
  IN IF e.failed
     THEN [w   |-> httpError(e.w, message, status),
           log |-> <<LogEntry("error template", <<>>, "template", 0)>>]
     ELSE [w |-> e.w, log |-> <<>>]

\* ------------------------------------------------------------ API client

\* What a fetch function returns: the value, the error ("" is nil), whether
\* the body was handed to the JSON decoder, and the status an error names.
FetchResult(val, err, decoded, code) ==
  [val |-> val, err |-> err, decoded |-> decoded, code |-> code]

NoRes == FetchResult(NilVal, NoErr, FALSE, 0)

\* http.NewRequestWithContext rejected the composed URL.
badRequestURL == FetchResult(NilVal, "parse", FALSE, 0)

recipeURL(id) == apiBase \o <<"/", "r", "e", "c", "i", "p", "e", "s", "/">> \o id
productURL(id) == apiBase \o <<"/", "p", "r", "o", "d", "u", "c", "t", "s", "/">> \o id
productsURL == apiBase \o <<"/", "p", "r", "o", "d", "u", "c", "t", "s">>

\* A fetchRecipe that treats 404 like any other unexpected status.
fetchRecipeGinNo404(id, resp) ==
  IF resp.kind # "http" THEN FetchResult(NilVal, resp.kind, FALSE, 0)
  ELSE IF resp.status # 200 THEN FetchResult(NilVal, "status", FALSE, resp.status)
  ELSE LET d == decodeStruct(id, resp.body)
       IN FetchResult(IF d.err = NoErr THEN d.val ELSE NilVal, d.err, TRUE, 0)

\* fetchRecipe of the gin build, from the return of http.DefaultClient.Do
fetchRecipeGin(id, resp) ==
  IF resp.kind # "http" THEN FetchResult(NilVal, resp.kind, FALSE, 0)
  ELSE IF resp.status = 404 THEN FetchResult(NilVal, NoErr, FALSE, 0)
  ELSE IF resp.status # 200 THEN FetchResult(NilVal, "status", FALSE, resp.status)
  ELSE LET d == decodeStruct(id, resp.body)
       IN FetchResult(IF d.err = NoErr THEN d.val ELSE NilVal, d.err, TRUE, 0)

\* A fetchProduct that decodes the body before it looks at the status.
fetchProductGinDecodeFirst(id, resp) ==
  IF resp.kind # "http" THEN FetchResult(NilVal, resp.kind, FALSE, 0)
  ELSE LET d == decodeStruct(id, resp.body) IN
       IF resp.status = 404 THEN FetchResult(NilVal, NoErr, TRUE, 0)
       ELSE IF resp.status # 200 THEN FetchResult(NilVal, "status", TRUE, resp.status)
       ELSE FetchResult(IF d.err = NoErr THEN d.val ELSE NilVal, d.err, TRUE, 0)

\* fetchProduct of the gin build, from the return of http.DefaultClient.Do
fetchProductGin(id, resp) ==
  IF resp.kind # "http" THEN FetchResult(NilVal, resp.kind, FALSE, 0)
  ELSE IF resp.status = 404 THEN FetchResult(NilVal, NoErr, FALSE, 0)
  ELSE IF resp.status # 200 THEN FetchResult(NilVal, "status", FALSE, resp.status)
  ELSE LET d == decodeStruct(id, resp.body)
       IN FetchResult(IF d.err = NoErr THEN d.val ELSE NilVal, d.err, TRUE, 0)

\* fetchRecipe of the mux build, from the return of http.DefaultClient.Do
fetchRecipeMux(id, resp) ==
  IF resp.kind # "http" THEN FetchResult(NilVal, resp.kind, FALSE, 0)
  ELSE IF resp.status = 404 THEN FetchResult(NilVal, NoErr, FALSE, 0)
  ELSE IF resp.status # 200 THEN FetchResult(NilVal, "status", FALSE, resp.status)
  ELSE LET d == decodeStruct(id, resp.body)
       IN FetchResult(IF d.err = NoErr THEN d.val ELSE NilVal, d.err, TRUE, 0)

\* fetchProducts of the mux build: every status but 200 is an error.
fetchProducts(resp) ==
  IF resp.kind # "http" THEN FetchResult(NilVal, resp.kind, FALSE, 0)
  ELSE IF resp.status # 200 THEN FetchResult(NilVal, "status", FALSE, resp.status)
  ELSE LET d == decodeList(resp.body)
       IN FetchResult(IF d.err = NoErr THEN d.val ELSE NilVal, d.err, TRUE, 0)

\* ---------------------------------------------------------------- handlers

IdleReq ==
  [pc |-> "idle", route |-> "none", path |-> <<>>, id |-> <<>>, url |-> <<>>,
   calls |-> 0, fetched |-> FALSE, resp |-> NoResp, res |-> NoRes, w |-> NewWriter]

\* A client that sends the request again.
sendUpstreamTwice(rq, url) ==
  [rq EXCEPT !.pc = "waiting", !.url = url, !.calls = @ + 2]

\* http.DefaultClient.Do(req): the one outbound request of a fetch; the
\* handler blocks until the upstream answers, fails or the timeout expires.
sendUpstream(rq, url) ==
  [rq EXCEPT !.pc = "waiting", !.url = url, !.calls = @ + 1]

\* handleHome of the gin build
handleHomeGin == [w |-> ginHTML(NewWriter, 200, "home", "", "", NilVal), log |-> <<>>]

\* handleRecipe of the gin build, from the return of fetchRecipe
handleRecipeGin(id, res) ==
  IF res.err # NoErr
  THEN LET e == renderErrorGin(NewWriter, 500, "Could not load recipe",
                  "The recipe could not be loaded. Please try again later.")
       IN [w |-> e.w, log |-> <<LogEntry("fetchRecipe", id, res.err, res.code)>> \o e.log]
  ELSE IF res.val.nil
  THEN renderErrorGin(NewWriter, 404, "Recipe not found",
         "This recipe does not exist or is no longer available.")
  ELSE [w |-> ginHTML(NewWriter, 200, "recipe", "", "", res.val), log |-> <<>>]

\* A handleProduct that shows the error it got.
handleProductGinLeaky(id, res) ==
  IF res.err # NoErr
  THEN LET e == renderErrorGin(NewWriter, 500, "Could not load product", res.err)
       IN [w |-> e.w, log |-> <<LogEntry("fetchProduct", id, res.err, res.code)>> \o e.log]
  ELSE IF res.val.nil
  THEN renderErrorGin(NewWriter, 404, "Product not found",
         "This product does not exist or is no longer available.")
  ELSE [w |-> ginHTML(NewWriter, 200, "product", "", "", res.val), log |-> <<>>]

\* handleProduct of the gin build, from the return of fetchProduct
handleProductGin(id, res) ==
  IF res.err # NoErr
  THEN LET e == renderErrorGin(NewWriter, 500, "Could not load product",
                  "The product could not be loaded. Please try again later.")
       IN [w |-> e.w, log |-> <<LogEntry("fetchProduct", id, res.err, res.code)>> \o e.log]
  ELSE IF res.val.nil
  THEN renderErrorGin(NewWriter, 404, "Product not found",
         "This product does not exist or is no longer available.")
  ELSE [w |-> ginHTML(NewWriter, 200, "product", "", "", res.val), log |-> <<>>]

\* The tail of a mux handler: execute the page template on w, log a failure.
executePage(name, val) ==
  LET e == ExecuteTemplate(NewWriter, name, "", "", val)
  IN [w   |-> finishRequest(e.w),
      log |-> IF e.failed THEN <<LogEntry("template error", <<>>, "template", 0)>>
              ELSE <<>>]

\* handleHome of the mux build
handleHomeMux(isRoot) ==
  IF ~isRoot
  THEN [w |-> httpError(NewWriter, "404 page not found", 404), log |-> <<>>]
  ELSE executePage("home.html", NilVal)

\* handleRecipe of the mux build, from the return of fetchRecipe
handleRecipeMux(id, res) ==
  IF res.err # NoErr
  THEN LET e == renderErrorMux(NewWriter, 500, "Could not load recipe",
                  "The recipe could not be loaded. Please try again later.")
       IN [w |-> e.w, log |-> <<LogEntry("fetchRecipe", id, res.err, res.code)>> \o e.log]
  ELSE IF res.val.nil
  THEN renderErrorMux(NewWriter, 404, "Recipe not found",
         "This recipe does not exist or is no longer available.")
  ELSE executePage("recipe.html", res.val)

\* handleProducts of the mux build, from the return of fetchProducts
handleProducts(res) ==
  IF res.err # NoErr
  THEN LET e == renderErrorMux(NewWriter, 500, "Could not load products",
                  "The product list could not be loaded. Please try again later.")
       IN [w |-> e.w, log |-> <<LogEntry("fetchProducts", <<>>, res.err, res.code)>> \o e.log]
  ELSE executePage("products.html", res.val)

\* -------------------------------------------------------- template helpers

QtyAlphabet == {"2", "c", " "}
QtyStrings == SeqsUpTo(QtyAlphabet, MaxStrLen)

NoOut == [done |-> FALSE, by |-> "", val |-> <<>>]

\* A formatQty that always joins with the separator.
formatQtyGinAlwaysJoins(q, u) == q \o <<" ">> \o u

\* "formatQty" of templateFuncMap (gin)
formatQtyGin(q, u) ==
  IF q = <<>> /\ u = <<>> THEN <<>>
  ELSE IF u = <<>> THEN q
  ELSE IF q = <<>> THEN u
  ELSE q \o <<" ">> \o u

\* "formatQty" of loadTemplates (mux)
formatQtyMux(q, u) ==
  IF q = <<>> /\ u = <<>> THEN <<>>
  ELSE IF u = <<>> THEN q
  ELSE IF q = <<>> THEN u
  ELSE q \o <<" ">> \o u

\* ------------------------------------------------------------ image ingestor
\* The ingestor's code is not among the source files; this part follows the
\* algorithm of the specification's section 4.3.

Uploads == 1..NumUploads

\* Content types the first 512 bytes can sniff to, and "" for a request
\* without the file field.
SniffedTypes == {"", "image/jpeg", "image/png", "image/gif", "image/webp", "text/plain"}

\* The allow-list: sniffed type -> extension (<<>> when not accepted).
allowedExt(t) ==
  CASE t = "image/jpeg" -> <<"j", "p", "g">>
    [] t = "image/png"  -> <<"p", "n", "g">>
    [] t = "image/gif"  -> <<"g", "i", "f">>
    [] t = "image/webp" -> <<"w", "e", "b", "p">>
    [] OTHER            -> <<>>

HexWidth == 8

DigitChars == <<"0", "1", "2", "3", "4", "5", "6", "7", "8", "9",
                "a", "b", "c", "d", "e", "f">>

\* n in decimal
RECURSIVE Decimal(_)
Decimal(n) ==
  IF n < 10 THEN <<DigitChars[n + 1]>>
  ELSE Decimal(n \div 10) \o <<DigitChars[(n % 10) + 1]>>

\* n in hexadecimal, zero-padded to w digits
RECURSIVE HexPadded(_, _)
HexPadded(n, w) ==
  IF w = 0 THEN <<>>
  ELSE HexPadded(n \div 16, w - 1) \o <<DigitChars[(n % 16) + 1]>>

\* A filename made of the timestamp alone.
uploadFilenameNoSuffix(ts, rand, ext) == Decimal(ts) \o <<".">> \o ext

\* <nanosecond timestamp>_<8-hex-digit random>.<ext>
uploadFilename(ts, rand, ext) ==
  Decimal(ts) \o <<"_">> \o HexPadded(rand, HexWidth) \o <<".">> \o ext

IdleUpload ==
  [pc |-> "idle", type |-> "", ts |-> 0, rand |-> 0, name |-> <<>>, status |-> 0]

ingestorOthers == <<variant, apiBaseUrl, templates, reqs, log, qty, unit, out>>

\* Steps 1-5: reject a request without the file field or with a type outside
\* the allow-list; otherwise read the clock, draw the suffix, build the name.
UploadBegin(u, t, rand) ==
  /\ uploads[u].pc = "idle"
  /\ uploads' = [uploads EXCEPT ![u] =
       IF allowedExt(t) = <<>>
       THEN [@ EXCEPT !.pc = "rejected", !.type = t, !.status = 400]
       ELSE [@ EXCEPT !.pc = "named", !.type = t, !.ts = clock, !.rand = rand,
                      !.name = uploadFilename(clock, rand, allowedExt(t))]]
  /\ UNCHANGED <<clock, files>>
  /\ UNCHANGED ingestorOthers

\* Steps 6-7: persist the stream under the name (an existing file of that
\* name is replaced) and return the public path.
UploadPersist(u) ==
  /\ uploads[u].pc = "named"
  /\ uploads' = [uploads EXCEPT ![u] = [@ EXCEPT !.pc = "stored", !.status = 200]]
  /\ files' = {f \in files : f.name # uploads[u].name}
                \cup {[name |-> uploads[u].name, from |-> u]}
  /\ UNCHANGED clock
  /\ UNCHANGED ingestorOthers

\* The nanosecond clock advances.
Tick ==
  /\ clock < MaxClock
  /\ clock' = clock + 1
  /\ UNCHANGED <<uploads, files>>
  /\ UNCHANGED ingestorOthers

\* ----------------------------------------------------------------- actions

others == <<variant, apiBaseUrl, templates, qty, unit, out, uploads, clock, files>>

\* The handler of request r has run to its end with result h.
Done(r, rq, h) ==
  /\ reqs' = [reqs EXCEPT ![r] = [rq EXCEPT !.pc = "done", !.w = h.w]]
  /\ log' = [log EXCEPT ![r] = @ \o h.log]

\* The handler of request r blocks in http.DefaultClient.Do.
Sent(r, rq, url) ==
  /\ reqs' = [reqs EXCEPT ![r] = sendUpstream(rq, url)]
  /\ UNCHANGED log

\* GET / (gin)
HandleHomeGin(r) ==
  /\ variant = "gin"
  /\ reqs[r].pc = "idle"
  /\ Done(r, [reqs[r] EXCEPT !.route = "home"], handleHomeGin)
  /\ UNCHANGED others

\* GET /recipes/:id (gin), up to the upstream call
HandleRecipeGinBegin(r, id) ==
  /\ variant = "gin"
  /\ reqs[r].pc = "idle"
  /\ IsGinParam(id)
  /\ LET rq == [reqs[r] EXCEPT !.route = "recipe", !.path = id, !.id = id]
         url == recipeURL(id)
     IN IF parseURL(url).ok
        THEN Sent(r, rq, url)
        ELSE Done(r, [rq EXCEPT !.fetched = TRUE, !.res = badRequestURL],
                  handleRecipeGin(id, badRequestURL))
  /\ UNCHANGED others

\* GET /recipes/:id (gin), from the upstream's answer
HandleRecipeGinEnd(r, resp) ==
  /\ variant = "gin"
  /\ reqs[r].pc = "waiting"
  /\ reqs[r].route = "recipe"
  /\ LET res == fetchRecipeGin(reqs[r].id, resp)
     IN Done(r, [reqs[r] EXCEPT !.fetched = TRUE, !.resp = resp, !.res = res],
             handleRecipeGin(reqs[r].id, res))
  /\ UNCHANGED others

\* GET /products/:id (gin), up to the upstream call
HandleProductGinBegin(r, id) ==
  /\ variant = "gin"
  /\ reqs[r].pc = "idle"
  /\ IsGinParam(id)
  /\ LET rq == [reqs[r] EXCEPT !.route = "product", !.path = id, !.id = id]
         url == productURL(id)
     IN IF parseURL(url).ok
        THEN Sent(r, rq, url)
        ELSE Done(r, [rq EXCEPT !.fetched = TRUE, !.res = badRequestURL],
                  handleProductGin(id, badRequestURL))
  /\ UNCHANGED others

\* GET /products/:id (gin), from the upstream's answer
HandleProductGinEnd(r, resp) ==
  /\ variant = "gin"
  /\ reqs[r].pc = "waiting"
  /\ reqs[r].route = "product"
  /\ LET res == fetchProductGin(reqs[r].id, resp)
     IN Done(r, [reqs[r] EXCEPT !.fetched = TRUE, !.resp = resp, !.res = res],
             handleProductGin(reqs[r].id, res))
  /\ UNCHANGED others

\* Any path the mux gives to "/" (mux)
HandleHomeMux(r, isRoot) ==
  /\ variant = "mux"
  /\ reqs[r].pc = "idle"
  /\ Done(r, [reqs[r] EXCEPT !.route = "home",
                             !.path = IF isRoot THEN <<>> ELSE <<"x">>],
          handleHomeMux(isRoot))
  /\ UNCHANGED others

\* GET /recipes/<tail> (mux), up to the upstream call
HandleRecipeMuxBegin(r, tail) ==
  /\ variant = "mux"
  /\ reqs[r].pc = "idle"
  /\ IsCleanTail(tail)
  /\ LET id == Base(tail)
         rq == [reqs[r] EXCEPT !.route = "recipe", !.path = tail, !.id = id]
         url == recipeURL(id)
     IN IF id = <<>> \/ id = <<".">> \/ id = <<"/">>
        THEN Done(r, rq, [w |-> httpRedirect(NewWriter, 302), log |-> <<>>])
        ELSE IF parseURL(url).ok
        THEN Sent(r, rq, url)
        ELSE Done(r, [rq EXCEPT !.fetched = TRUE, !.res = badRequestURL],
                  handleRecipeMux(id, badRequestURL))
  /\ UNCHANGED others

\* GET /recipes/<tail> (mux), from the upstream's answer
HandleRecipeMuxEnd(r, resp) ==
  /\ variant = "mux"
  /\ reqs[r].pc = "waiting"
  /\ reqs[r].route = "recipe"
  /\ LET res == fetchRecipeMux(reqs[r].id, resp)
     IN Done(r, [reqs[r] EXCEPT !.fetched = TRUE, !.resp = resp, !.res = res],
             handleRecipeMux(reqs[r].id, res))
  /\ UNCHANGED others

\* GET /products (mux), up to the upstream call
HandleProductsBegin(r) ==
  /\ variant = "mux"
  /\ reqs[r].pc = "idle"
  /\ Sent(r, [reqs[r] EXCEPT !.route = "products"], productsURL)
  /\ UNCHANGED others

\* GET /products (mux), from the upstream's answer
HandleProductsEnd(r, resp) ==
  /\ variant = "mux"
  /\ reqs[r].pc = "waiting"
  /\ reqs[r].route = "products"
  /\ LET res == fetchProducts(resp)
     IN Done(r, [reqs[r] EXCEPT !.fetched = TRUE, !.resp = resp, !.res = res],
             handleProducts(res))
  /\ UNCHANGED others

\* ------------------------------------------------------------ specification

\* Path tails of the inbound requests of the pipeline specification.
SampleTails == { <<>>, <<"a">>, <<"b", "/", "a">>, <<"%">> }

\* Every path tail up to MaxIdLen characters (the URL-composition specification).
AllTails == SeqsUpTo(Alphabet, MaxIdLen)

StartUp ==
  /\ variant \in {"gin", "mux"}
  /\ apiBaseUrl \in EnvValues
  /\ templates \in TemplateSets(IF variant = "gin" THEN TemplateNamesGin
                                ELSE TemplateNamesMux)
  /\ reqs = [r \in Reqs |-> IdleReq]
  /\ log = [r \in Reqs |-> <<>>]

\* No formatQty call and no upload takes part.
HelpersOff == qty = <<>> /\ unit = <<>> /\ out = NoOut
IngestorOff == uploads = [u \in Uploads |-> IdleUpload] /\ clock = 0 /\ files = {}

\* No inbound page request takes part.
PipelineOff ==
  /\ variant = "gin"
  /\ apiBaseUrl = <<>>
  /\ templates = [n \in TemplateNamesGin |-> "ok"]
  /\ reqs = [r \in Reqs |-> IdleReq]
  /\ log = [r \in Reqs |-> <<>>]

Init == StartUp /\ HelpersOff /\ IngestorOff

Serve(r, tails) ==
  \/ HandleHomeGin(r)
  \/ \E id \in tails : HandleRecipeGinBegin(r, id)
  \/ \E resp \in Responses : HandleRecipeGinEnd(r, resp)
  \/ \E id \in tails : HandleProductGinBegin(r, id)
  \/ \E resp \in Responses : HandleProductGinEnd(r, resp)
  \/ \E isRoot \in BOOLEAN : HandleHomeMux(r, isRoot)
  \/ \E tail \in tails : HandleRecipeMuxBegin(r, tail)
  \/ \E resp \in Responses : HandleRecipeMuxEnd(r, resp)
  \/ HandleProductsBegin(r)
  \/ \E resp \in Responses : HandleProductsEnd(r, resp)

Next == \E r \in Reqs : Serve(r, SampleTails)

\* The pipeline: NumReqs requests handled concurrently.
Spec == Init /\ [][Next]_vars

UrlNext == Serve(1, AllTails)

\* URL composition: one request, every path tail up to MaxIdLen characters.
UrlSpec == Init /\ [][UrlNext]_vars

\* formatQty is applied to one pair of strings, by either build.
FmtInit ==
  /\ PipelineOff /\ IngestorOff
  /\ qty \in QtyStrings /\ unit \in QtyStrings /\ out = NoOut

fmtOthers == <<variant, apiBaseUrl, templates, reqs, log, uploads, clock, files>>

FormatQtyGin ==
  /\ ~out.done
  /\ out' = [done |-> TRUE, by |-> "gin", val |-> formatQtyGin(qty, unit)]
  /\ UNCHANGED <<qty, unit>>
  /\ UNCHANGED fmtOthers

FormatQtyMux ==
  /\ ~out.done
  /\ out' = [done |-> TRUE, by |-> "mux", val |-> formatQtyMux(qty, unit)]
  /\ UNCHANGED <<qty, unit>>
  /\ UNCHANGED fmtOthers

FmtNext == FormatQtyGin \/ FormatQtyMux

FmtSpec == FmtInit /\ [][FmtNext]_vars

\* The image ingestor: NumUploads uploads handled concurrently.
UploadInit == PipelineOff /\ HelpersOff /\ IngestorOff

UploadNext ==
  \/ \E u \in Uploads, t \in SniffedTypes, rand \in 0..MaxRand : UploadBegin(u, t, rand)
  \/ \E u \in Uploads : UploadPersist(u)
  \/ Tick

UploadSpec == UploadInit /\ [][UploadNext]_vars

\* ------------------------------------------------------------------ claims

IsDone(r) == reqs[r].pc = "done"

\* Request r fetched one record by its identifier.
ByIdRoute(r) == reqs[r].route \in {"recipe", "product"}

\* The upstream answered request r with HTTP status s.
Answered(r, s) == reqs[r].resp.kind = "http" /\ reqs[r].resp.status = s

\* The upstream call of request r failed in one of the ways of claim C2.
UpstreamFailed(r) ==
  \/ reqs[r].resp.kind \in {"transport", "timeout"}
  \/ reqs[r].resp.kind = "http" /\ reqs[r].resp.status \notin {200, 404}

Chunks(r) == Range(reqs[r].w.body)

\* C1: a content route (/recipes/{id}, /products/{id}) whose upstream call
\* was answered 404 responds 404, shows no record, and never handed the
\* upstream body to the decoder.
C1_NotFound ==
  \A r \in Reqs :
    (IsDone(r) /\ ByIdRoute(r) /\ Answered(r, 404)) =>
      /\ reqs[r].w.status = 404
      /\ ~reqs[r].res.decoded
      /\ \A c \in Chunks(r) : c.val.nil

C1_Witness ==
  \E r \in Reqs :
    /\ IsDone(r) /\ ByIdRoute(r) /\ Answered(r, 404)
    /\ reqs[r].w.status = 404
    /\ \E c \in Chunks(r) : c.part = "full" /\ c.title \in {"Recipe not found", "Product not found"}

GenericMessage(route) ==
  CASE route = "recipe"   -> "The recipe could not be loaded. Please try again later."
    [] route = "product"  -> "The product could not be loaded. Please try again later."
    [] route = "products" -> "The product list could not be loaded. Please try again later."
    [] OTHER              -> ""

ErrorCauses == {"parse", "transport", "timeout", "status", "decode"}

\* C2: a fetching route whose upstream call failed at transport level, timed
\* out or was answered with a status outside {200, 404} responds 500; all it
\* shows is the route's fixed message, whatever the cause; the cause is in
\* the log and nowhere in the response.
C2_GenericError ==
  \A r \in Reqs :
    (IsDone(r) /\ UpstreamFailed(r)) =>
      /\ reqs[r].w.status = 500
      /\ \A c \in Chunks(r) :
           /\ c.message = GenericMessage(reqs[r].route)
           /\ c.message \notin ErrorCauses /\ c.title \notin ErrorCauses
           /\ c.val.nil
      /\ \E i \in 1..Len(log[r]) :
           log[r][i].cause = reqs[r].res.err /\ log[r][i].cause \in ErrorCauses

C2_Witness ==
  \E r \in Reqs :
    /\ IsDone(r) /\ reqs[r].resp.kind = "timeout"
    /\ reqs[r].w.status = 500
    /\ \E c \in Chunks(r) : c.part = "full" /\ c.message = GenericMessage(reqs[r].route)

\* The fetch of request r returned NotFound: no value and no error.
NotFoundResult(r) == reqs[r].res.err = NoErr /\ reqs[r].res.val.nil

\* C3 as claimed: every fetch operation, the product list included, maps a
\* 404 to NotFound, and every other non-200 status to an error.
C3_Every404IsNotFound ==
  \A r \in Reqs :
    (reqs[r].fetched /\ reqs[r].resp.kind = "http") =>
      /\ (reqs[r].resp.status = 404 => NotFoundResult(r))
      /\ (reqs[r].resp.status \notin {200, 404} => reqs[r].res.err # NoErr)

\* C3 as amended: the by-id fetches (fetchRecipe, fetchProduct) map a 404 to
\* NotFound and every other non-200 status to an error; fetchProducts turns
\* every non-200 status, 404 included, into an error.
C3_ByIdOnly ==
  \A r \in Reqs :
    (reqs[r].fetched /\ reqs[r].resp.kind = "http") =>
      /\ (ByIdRoute(r) /\ reqs[r].resp.status = 404 => NotFoundResult(r))
      /\ (reqs[r].resp.status \notin {200, 404} => reqs[r].res.err = "status")
      /\ (reqs[r].route = "products" /\ reqs[r].resp.status # 200
            => reqs[r].res.err = "status")

C3_Witness ==
  \E r1, r2 \in Reqs :
    /\ reqs[r1].fetched /\ ByIdRoute(r1) /\ Answered(r1, 404) /\ NotFoundResult(r1)
    /\ reqs[r2].fetched /\ reqs[r2].route = "products" /\ Answered(r2, 404)
    /\ reqs[r2].res.err = "status"

\* C4: a by-id content route responds 200 only when the upstream answered
\* 200 with a well-formed document of the expected shape, and the page then
\* shows that record, never an empty one.
C4_OnlyFullRecords ==
  \A r \in Reqs :
    (IsDone(r) /\ ByIdRoute(r) /\ reqs[r].w.status = 200) =>
      /\ Answered(r, 200) /\ reqs[r].resp.body = "record"
      /\ \A c \in Chunks(r) : c.val = FullVal(reqs[r].id)

\* C5: no request gets a second body after a first one was started: at most
\* one producer (a template, http.Error, http.Redirect) writes to a response.
C5_OneBody == \A r \in Reqs : Len(reqs[r].w.body) <= 1

RoutePrefix(route) ==
  IF route = "recipe" THEN <<"/", "r", "e", "c", "i", "p", "e", "s", "/">>
  ELSE <<"/", "p", "r", "o", "d", "u", "c", "t", "s", "/">>

\* C6: the identifier is path-escaped before it is appended, so the upstream
\* request addresses exactly one path element under /recipes/ or /products/
\* and carries no query string.
C6_Escaped ==
  \A r \in Reqs :
    (ByIdRoute(r) /\ reqs[r].calls > 0) =>
      LET u    == parseURL(reqs[r].url)
          stem == Tail(apiBase) \o RoutePrefix(reqs[r].route)
      IN /\ reqs[r].url = apiBase \o RoutePrefix(reqs[r].route) \o PathEscape(reqs[r].id)
         /\ ~u.hasQuery
         /\ HasPrefix(u.path, stem)
         /\ Drop(u.path, Len(stem)) # <<>>
         /\ "/" \notin Range(Drop(u.path, Len(stem)))

\* C7: a request causes at most one upstream request whatever the result,
\* and GET / causes none.
C7_NoRetry ==
  \A r \in Reqs :
    /\ reqs[r].calls <= 1
    /\ (reqs[r].route = "home" => reqs[r].calls = 0)
    /\ (IsDone(r) /\ reqs[r].resp.kind # "none" => reqs[r].calls = 1)

C7_Witness ==
  \E r1, r2 \in Reqs :
    /\ IsDone(r1) /\ reqs[r1].resp.kind = "transport" /\ reqs[r1].calls = 1
    /\ IsDone(r2) /\ reqs[r2].route = "home" /\ reqs[r2].calls = 0

\* C8 as claimed: two uploads never get the same filename.
C8_AlwaysDistinct ==
  \A u1, u2 \in Uploads :
    (u1 # u2 /\ uploads[u1].name # <<>> /\ uploads[u2].name # <<>>) =>
      uploads[u1].name # uploads[u2].name

\* C8 as amended: two uploads get the same filename only when they read the
\* same timestamp, drew the same random suffix and sniffed to the same
\* extension; uploads that differ in any of the three, in particular two of
\* one timestamp with different suffixes, are stored as two files.
C8_DistinctUnlessSameDraw ==
  \A u1, u2 \in Uploads :
    (u1 # u2 /\ uploads[u1].name # <<>> /\ uploads[u2].name # <<>>) =>
      /\ (uploads[u1].name = uploads[u2].name) <=>
           /\ uploads[u1].ts = uploads[u2].ts
           /\ uploads[u1].rand = uploads[u2].rand
           /\ allowedExt(uploads[u1].type) = allowedExt(uploads[u2].type)
      /\ (uploads[u1].pc = "stored" /\ uploads[u2].pc = "stored"
          /\ uploads[u1].name # uploads[u2].name)
           => \E f1, f2 \in files :
                /\ f1 # f2
                /\ f1.name = uploads[u1].name /\ f2.name = uploads[u2].name

C8_Witness ==
  \E u1, u2 \in Uploads :
    /\ u1 # u2
    /\ uploads[u1].pc = "stored" /\ uploads[u2].pc = "stored"
    /\ uploads[u1].ts = uploads[u2].ts
    /\ uploads[u1].type = uploads[u2].type
    /\ uploads[u1].rand # uploads[u2].rand
    /\ uploads[u1].name # uploads[u2].name
    /\ \E f1, f2 \in files : f1.from = u1 /\ f2.from = u2

\* Two requests for the same recipe that met the same upstream outcome.
SameRecipeRequest(r1, r2) ==
  /\ r1 # r2
  /\ IsDone(r1) /\ IsDone(r2)
  /\ reqs[r1].route = "recipe" /\ reqs[r2].route = "recipe"
  /\ reqs[r1].id = reqs[r2].id
  /\ reqs[r1].resp = reqs[r2].resp

SameResponses ==
  \A r1, r2 \in Reqs : SameRecipeRequest(r1, r2) => reqs[r1].w = reqs[r2].w

\* C9: two requests for the same recipe id, in sequence or interleaved, get
\* the same status and the same output when the upstream answered both alike;
\* no request writes what another reads (the template set, the configuration).
C9_Idempotent ==
  /\ []SameResponses
  /\ [][templates' = templates /\ apiBaseUrl' = apiBaseUrl /\ variant' = variant]_vars

C9_Witness ==
  \E r1, r2 \in Reqs :
    /\ SameRecipeRequest(r1, r2)
    /\ reqs[r1].resp.kind = "http"
    /\ reqs[r1].w = reqs[r2].w
    /\ reqs[r1].w.body # <<>>

\* C10: formatQty leaves out blank parts: ("", "") gives "", (q, "") gives q,
\* ("", u) gives u, (q, u) gives q, one space, u; the result has exactly the
\* characters of its parts, and begins and ends with a character of a part,
\* never with the separator.
C10_FormatQty ==
  out.done =>
    /\ (qty = <<>> /\ unit = <<>> => out.val = <<>>)
    /\ (qty # <<>> /\ unit = <<>> => out.val = qty)
    /\ (qty = <<>> /\ unit # <<>> => out.val = unit)
    /\ (qty # <<>> /\ unit # <<>> => out.val = qty \o <<" ">> \o unit)
    /\ Len(out.val) = Len(qty) + Len(unit)
                        + (IF qty # <<>> /\ unit # <<>> THEN 1 ELSE 0)
    /\ (out.val # <<>> =>
          /\ Head(out.val) = Head(qty \o unit)
          /\ out.val[Len(out.val)] = (qty \o unit)[Len(qty) + Len(unit)])

C10_Witness ==
  /\ out.done /\ out.by = "gin"
  /\ qty = <<"2">> /\ unit = <<>>
  /\ out.val = <<"2">>

====
